---- MODULE Spec2Model ----
(***************************************************************************)
(* Model of app.py (Crypto KI Strategy App V10): one Streamlit script that *)
(* fetches a price series, adds indicator columns, derives a signal, runs  *)
(* a crossover backtest, computes a risk/reward ratio and appends trades   *)
(* to trades.json.                                                         *)
(*                                                                         *)
(* Numbers.  A float is a record [k, s, n, d] in sign-magnitude form, as   *)
(* in IEEE-754: k = "num" is the rational s*n/d (n >= 0, d > 0, lowest     *)
(* terms; n = 0 keeps the sign of the zero), k = "inf" is s*infinity and   *)
(* k = "nan" is not-a-number.  Arithmetic is exact on "num"; rounding,     *)
(* overflow and underflow of the binary format are outside the model.      *)
(* Series indices are 0-based as in the source; iloc does the shift.       *)
(***************************************************************************)
EXTENDS Integers, Sequences, FiniteSets, TLC

\* ---------------------------------------------------------------- bounds
MaxSegs == 3
MaxPrice == 2
MaxRows == 2
MaxInput == 3
MaxTrades == 2
MaxAmount == 1
MaxTradePrice == 1

\* ------------------------------------------------------- float arithmetic
Abs(x) == IF x < 0 THEN -x ELSE x

RECURSIVE GCD(_, _)
GCD(a, b) == IF b = 0 THEN a ELSE GCD(b, a % b)

NaN == [k |-> "nan", s |-> 1, n |-> 0, d |-> 0]

Inf(sg) == [k |-> "inf", s |-> sg, n |-> 1, d |-> 0]

Num(sg, nn, dd) ==
    LET g == GCD(nn, dd)
    IN  IF nn = 0 THEN [k |-> "num", s |-> sg, n |-> 0, d |-> 1]
        ELSE [k |-> "num", s |-> sg, n |-> nn \div g, d |-> dd \div g]

\* a Python int or integer-valued float literal
Flt(v) == Num(IF v < 0 THEN -1 ELSE 1, Abs(v), 1)

IsNaN(x) == x.k = "nan"

IsZero(x) == x.k = "num" /\ x.n = 0

\* unary minus flips the sign bit, also of a zero
FNeg(x) == IF IsNaN(x) THEN NaN ELSE [x EXCEPT !.s = -x.s]

FAdd(x, y) ==
    IF IsNaN(x) \/ IsNaN(y) THEN NaN
    ELSE IF x.k = "inf" /\ y.k = "inf" THEN (IF x.s = y.s THEN x ELSE NaN)
    ELSE IF x.k = "inf" THEN x
    ELSE IF y.k = "inf" THEN y
    ELSE LET a == x.s * x.n * y.d + y.s * y.n * x.d
         IN  IF a = 0
             THEN Num(IF x.s = -1 /\ y.s = -1 THEN -1 ELSE 1, 0, 1)
             ELSE Num(IF a < 0 THEN -1 ELSE 1, Abs(a), x.d * y.d)

FSub(x, y) == FAdd(x, FNeg(y))

FMul(x, y) ==
    IF IsNaN(x) \/ IsNaN(y) THEN NaN
    ELSE IF (x.k = "inf" /\ IsZero(y)) \/ (IsZero(x) /\ y.k = "inf") THEN NaN
    ELSE IF x.k = "inf" \/ y.k = "inf" THEN Inf(x.s * y.s)
    ELSE Num(x.s * y.s, x.n * y.n, x.d * y.d)

\* numpy / pandas division: a zero divisor gives inf or nan, never raises
FDiv(x, y) ==
    IF IsNaN(x) \/ IsNaN(y) THEN NaN
    ELSE IF x.k = "inf" /\ y.k = "inf" THEN NaN
    ELSE IF IsZero(x) /\ IsZero(y) THEN NaN
    ELSE IF x.k = "inf" THEN Inf(x.s * y.s)
    ELSE IF y.k = "inf" THEN Num(x.s * y.s, 0, 1)
    ELSE IF IsZero(y) THEN Inf(x.s * y.s)
    ELSE Num(x.s * y.s, x.n * y.d, x.d * y.n)

\* x > y; every comparison with nan is False, -0 equals +0
FGt(x, y) ==
    IF IsNaN(x) \/ IsNaN(y) THEN FALSE
    ELSE IF x.k = "inf" THEN x.s = 1 /\ ~(y.k = "inf" /\ y.s = 1)
    ELSE IF y.k = "inf" THEN y.s = -1
    ELSE x.s * x.n * y.d > y.s * y.n * x.d

FLt(x, y) == FGt(y, x)

FEq(x, y) ==
    IF IsNaN(x) \/ IsNaN(y) THEN FALSE
    ELSE IF x.k = "inf" \/ y.k = "inf" THEN x.k = y.k /\ x.s = y.s
    ELSE x.s * x.n * y.d = y.s * y.n * x.d

FGe(x, y) == FGt(x, y) \/ FEq(x, y)

FLe(x, y) == FGe(y, x)

\* ----------------------------------------------------------------- pandas
\* column.iloc[i] for a 0-based i, column.iloc[-1] for the last element
iloc(col, i) == IF i < 0 THEN col[Len(col) + 1 + i] ELSE col[i + 1]

\* col.rolling(w).mean() as pandas computes it: a running sum and a running
\* count of the non-nan observations, the element leaving the window taken
\* off again; the mean is nan while the window holds fewer than w
\* observations.  Accumulate gives the running (sum, nobs) after every row.
Observe(acc, x) ==
    IF IsNaN(x) THEN acc
    ELSE [sum |-> FAdd(acc.sum, x), nobs |-> acc.nobs + 1]

RECURSIVE Accumulate(_, _, _, _)
Accumulate(col, lo, hi, acc) ==
    IF lo > hi THEN <<>>
    ELSE IF lo = hi THEN <<Observe(acc, col[lo])>>
    ELSE LET mid == (lo + hi) \div 2
             left == Accumulate(col, lo, mid, acc)
         IN  left \o Accumulate(col, mid + 1, hi, left[Len(left)])

rolling_mean(col, w) ==
    LET zero == [sum |-> Flt(0), nobs |-> 0]
        acc == Accumulate(col, 1, Len(col), zero)
        mean(j) ==
            LET in_ == acc[j]
                out == IF j > w THEN acc[j - w] ELSE zero
            IN  IF in_.nobs - out.nobs < w THEN NaN
                ELSE FDiv(FSub(in_.sum, out.sum), Flt(w))
    IN  SubSeq([j \in 1..Len(col) |-> mean(j)], 1, Len(col))

\* col.diff(): first element nan
diff(col) ==
    [j \in 1..Len(col) |->
        IF j = 1 THEN NaN ELSE FSub(col[j], col[j - 1])]

\* col.clip(lower=0) and col.clip(upper=0); nan stays nan
clip_lower0(col) ==
    [j \in 1..Len(col) |->
        IF IsNaN(col[j]) THEN NaN
        ELSE IF FLt(col[j], Flt(0)) THEN Flt(0) ELSE col[j]]

clip_upper0(col) ==
    [j \in 1..Len(col) |->
        IF IsNaN(col[j]) THEN NaN
        ELSE IF FGt(col[j], Flt(0)) THEN Flt(0) ELSE col[j]]

ColNeg(col) == [j \in 1..Len(col) |-> FNeg(col[j])]

ColDiv(a, b) == [j \in 1..Len(a) |-> FDiv(a[j], b[j])]

\* the RSI column of add_indicators: delta, gain, loss, rs as in the source
RSI(price) ==
    LET delta == diff(price)
        gain == rolling_mean(clip_lower0(delta), 14)
        loss == ColNeg(rolling_mean(clip_upper0(delta), 14))
        rs == ColDiv(gain, loss)
    IN  [j \in 1..Len(price) |->
            FSub(Flt(100), FDiv(Flt(100), FAdd(Flt(1), rs[j])))]

\* EMA20 = price.ewm(span=20).mean() is the weighted mean of price[0..i]
\* with weights (19/21)^k; these exceed 32-bit integers, so
\* a value of the column is kept as the closed interval [lo, hi] that
\* encloses it: exact (lo = hi) while the prefix is constant, else the
\* range of the prefix (all weights are positive).
FMin(x, y) == IF FLt(y, x) THEN y ELSE x

FMax(x, y) == IF FGt(y, x) THEN y ELSE x

Enclose(acc, x) == [lo |-> FMin(acc.lo, x), hi |-> FMax(acc.hi, x)]

RECURSIVE RunningRange(_, _, _, _)
RunningRange(col, lo, hi, acc) ==
    IF lo > hi THEN <<>>
    ELSE IF lo = hi THEN <<Enclose(acc, col[lo])>>
    ELSE LET mid == (lo + hi) \div 2
             left == RunningRange(col, lo, mid, acc)
         IN  left \o RunningRange(col, mid + 1, hi, left[Len(left)])

ewm_mean(col) ==
    IF col = <<>> THEN <<>>
    ELSE RunningRange(col, 1, Len(col), [lo |-> col[1], hi |-> col[1]])

Exact(x) == [lo |-> x, hi |-> x]

\* the outcomes of  x > e  for a float x and an enclosed value e
GtEnclosed(x, e) ==
    IF IsNaN(x) \/ IsNaN(e.lo) THEN {FALSE}
    ELSE {b \in BOOLEAN : (b => FGt(x, e.lo)) /\ (~b => FLe(x, e.hi))}

\* ------------------------------------------------------------------ state
VARIABLES pc, df, signal, score, panel, i, cash, coin_amt, final, info,
          executed, entry, sl, tp, risk, reward, written, file, trades,
          t_new, table, appended, file0

vars == <<pc, df, signal, score, panel, i, cash, coin_amt, final, info,
          executed, entry, sl, tp, risk, reward, written, file, trades,
          t_new, table, appended, file0>>

chartVars == <<df, signal, score, panel, i, cash, coin_amt, final, info,
               executed>>

riskVars == <<entry, sl, tp, risk, reward, written>>

logVars == <<file, trades, t_new, table, appended, file0>>

\* a name that is not bound yet
None == [k |-> "none", s |-> 1, n |-> 0, d |-> 0]

NoFrame == [price |-> <<>>, SMA20 |-> <<>>, SMA50 |-> <<>>,
            EMA20 |-> <<>>, RSI |-> <<>>]

ChartIdle ==
    /\ df = NoFrame
    /\ signal = "" /\ score = 0 /\ panel = <<>>
    /\ i = 0 /\ cash = None /\ coin_amt = None /\ final = None
    /\ info = None /\ executed = <<>>

RiskIdle ==
    /\ entry = None /\ sl = None /\ tp = None
    /\ risk = None /\ reward = None /\ written = <<>>

\* ------------------------------------------------------------- get_chart
\* The provider's answer: a series of strictly positive prices.  The series
\* are runs of equal prices; neighbouring runs differ in price.
SegLens == {10, 55}

Seg == [len : SegLens, price : 1..MaxPrice]

SegLists ==
    {sl_ \in UNION {[1..m -> Seg] : m \in 1..MaxSegs} :
        \A j \in 1..(Len(sl_) - 1) : sl_[j].price # sl_[j + 1].price}

RECURSIVE Expand(_)
Expand(segs) ==
    IF segs = <<>> THEN <<>>
    ELSE Expand(SubSeq(segs, 1, Len(segs) - 1)) \o
         [j \in 1..segs[Len(segs)].len |-> Flt(segs[Len(segs)].price)]

get_chart ==
    /\ pc = "chart"
    /\ \E segs \in SegLists : df' = [NoFrame EXCEPT !.price = Expand(segs)]
    /\ pc' = "indicators"
    /\ UNCHANGED <<signal, score, panel, i, cash, coin_amt, final, info,
                   executed>>
    /\ UNCHANGED riskVars /\ UNCHANGED logVars

\* -------------------------------------------------------- add_indicators
add_indicators ==
    /\ pc = "indicators"
    /\ df' = [price |-> df.price,
              SMA20 |-> rolling_mean(df.price, 20),
              SMA50 |-> rolling_mean(df.price, 50),
              EMA20 |-> ewm_mean(df.price),
              RSI   |-> RSI(df.price)]
    /\ pc' = "signal"
    /\ UNCHANGED <<signal, score, panel, i, cash, coin_amt, final, info,
                   executed>>
    /\ UNCHANGED riskVars /\ UNCHANGED logVars

\* ------------------------------------------------------------- ai_signal
B2N(b) == IF b THEN 1 ELSE 0

\* classify with the BUY threshold one too low
classify_buy_from_1(sc) ==
    IF sc >= 1 THEN <<"BUY", sc>>
    ELSE IF sc <= -1 THEN <<"SELL", sc>>
    ELSE <<"HOLD", sc>>

classify(sc) ==
    IF sc >= 2 THEN <<"BUY", sc>>
    ELSE IF sc <= -1 THEN <<"SELL", sc>>
    ELSE <<"HOLD", sc>>

\* the (signal, score) pairs ai_signal(d) can return; one pair whenever the
\* last EMA20 value is exact
ai_signal(d) ==
    {classify(B2N(FGt(iloc(d.SMA20, -1), iloc(d.SMA50, -1)))
              + B2N(b)
              + B2N(FLt(iloc(d.RSI, -1), Flt(30)))
              - B2N(FGt(iloc(d.RSI, -1), Flt(70)))) :
        b \in GtEnclosed(iloc(d.price, -1), iloc(d.EMA20, -1))}

signal_call ==
    /\ pc = "signal"
    /\ \E r \in ai_signal(df) : signal' = r[1] /\ score' = r[2]
    /\ pc' = "panel"
    /\ UNCHANGED <<df, panel, i, cash, coin_amt, final, info, executed>>
    /\ UNCHANGED riskVars /\ UNCHANGED logVars

\* st.success / st.error / st.warning with the score in the text
signal_panel ==
    /\ pc = "panel"
    /\ panel' = IF signal = "BUY" THEN <<"success", "BUY Signal | Score", score>>
                ELSE IF signal = "SELL" THEN <<"error", "SELL Signal | Score", score>>
                ELSE <<"warning", "HOLD | Score", score>>
    /\ pc' = "backtest"
    /\ UNCHANGED <<df, signal, score, i, cash, coin_amt, final, info, executed>>
    /\ UNCHANGED riskVars /\ UNCHANGED logVars


\* -------------------------------------------------------------- backtest
RECURSIVE IsPow2(_)
IsPow2(m) == m = 1 \/ (m > 1 /\ m % 2 = 0 /\ IsPow2(m \div 2))

\* round(x, 2): the nearest multiple of 1/100.  A decimal tie goes to the
\* even neighbour when x is a binary fraction; otherwise the float nearest
\* to x lies on one side of the tie and either neighbour can result.
round2(x) ==
    IF x.k # "num" THEN {x}
    ELSE LET f == (x.n * 100) \div x.d
             r == (x.n * 100) % x.d
         IN  IF 2 * r < x.d THEN {Num(x.s, f, 100)}
             ELSE IF 2 * r > x.d THEN {Num(x.s, f + 1, 100)}
             ELSE IF IsPow2(x.d)
                  THEN {Num(x.s, IF f % 2 = 0 THEN f ELSE f + 1, 100)}
             ELSE {Num(x.s, f, 100), Num(x.s, f + 1, 100)}

\* st.button("Backtest SMA Strategy"), then cash = 1000, coin_amt = 0
backtest_button ==
    /\ pc = "backtest"
    /\ \E pressed \in BOOLEAN :
          IF pressed
          THEN /\ cash' = Flt(1000)
               /\ coin_amt' = Flt(0)
               /\ i' = 50
               /\ pc' = "bt_loop"
          ELSE /\ pc' = "risk"
               /\ UNCHANGED <<cash, coin_amt, i>>
    /\ UNCHANGED <<df, signal, score, panel, final, info, executed>>
    /\ UNCHANGED riskVars /\ UNCHANGED logVars

\* the entry test with >= for >
BuyCond_ge(d, ix, amt_) ==
    FGe(iloc(d.SMA20, ix), iloc(d.SMA50, ix)) /\ FEq(amt_, Flt(0))

BuyCond(d, ix, amt_) ==
    FGt(iloc(d.SMA20, ix), iloc(d.SMA50, ix)) /\ FEq(amt_, Flt(0))

\* the exit test with <= for <
SellCond_le(d, ix, amt_) ==
    FLe(iloc(d.SMA20, ix), iloc(d.SMA50, ix)) /\ FGt(amt_, Flt(0))

\* the exit test without the holdings check
SellCond_any(d, ix, amt_) ==
    FLt(iloc(d.SMA20, ix), iloc(d.SMA50, ix))

SellCond(d, ix, amt_) ==
    FLt(iloc(d.SMA20, ix), iloc(d.SMA50, ix)) /\ FGt(amt_, Flt(0))

\* one pass of  for i in range(50, len(df));  executed records the branch
\* taken, with its index
backtest_iter ==
    /\ pc = "bt_loop"
    /\ i < Len(df.price)
    /\ IF BuyCond(df, i, coin_amt)
       THEN /\ coin_amt' = FDiv(cash, iloc(df.price, i))
            /\ cash' = Flt(0)
            /\ executed' = Append(executed, <<"BUY", i>>)
       ELSE IF SellCond(df, i, coin_amt)
       THEN /\ cash' = FMul(coin_amt, iloc(df.price, i))
            /\ coin_amt' = Flt(0)
            /\ executed' = Append(executed, <<"SELL", i>>)
       ELSE UNCHANGED <<cash, coin_amt, executed>>
    /\ i' = i + 1
    /\ UNCHANGED <<pc, df, signal, score, panel, final, info>>
    /\ UNCHANGED riskVars /\ UNCHANGED logVars

\* the final result with cash >= 0 for cash > 0
final_value_ge(d, cash_, amt_) ==
    IF FGe(cash_, Flt(0)) THEN cash_ ELSE FMul(amt_, iloc(d.price, -1))

final_value(d, cash_, amt_) ==
    IF FGt(cash_, Flt(0)) THEN cash_ ELSE FMul(amt_, iloc(d.price, -1))

\* final = ...; st.info(round(final, 2))
backtest_final ==
    /\ pc = "bt_loop"
    /\ i >= Len(df.price)
    /\ final' = final_value(df, cash, coin_amt)
    /\ \E r \in round2(final') : info' = r
    /\ pc' = "risk"
    /\ UNCHANGED <<df, signal, score, panel, i, cash, coin_amt, executed>>
    /\ UNCHANGED riskVars /\ UNCHANGED logVars

\* ------------------------------------------------------------ SL/TP tool
ZeroDivisionError == [k |-> "raise", s |-> 1, n |-> 0, d |-> 0]

\* x / y on Python floats: a zero divisor raises
py_truediv(x, y) == IF IsZero(y) THEN ZeroDivisionError ELSE FDiv(x, y)

InputVals == {Flt(v) : v \in (-1)..MaxInput}

\* the three st.number_input widgets
sltp_inputs ==
    /\ pc = "risk"
    /\ \E e \in InputVals, l \in InputVals, t \in InputVals :
          entry' = e /\ sl' = l /\ tp' = t
    /\ pc' = "risk_calc"
    /\ UNCHANGED <<risk, reward, written>>
    /\ UNCHANGED chartVars /\ UNCHANGED logVars

\* if entry > 0 and sl > 0 and tp > 0: ... st.write(round(reward/risk, 2))
sltp_tool ==
    /\ pc = "risk_calc"
    /\ IF FGt(entry, Flt(0)) /\ FGt(sl, Flt(0)) /\ FGt(tp, Flt(0))
       THEN /\ risk' = FSub(entry, sl)
            /\ reward' = FSub(tp, entry)
            /\ LET q == py_truediv(reward', risk')
               IN  IF q = ZeroDivisionError
                   THEN pc' = "crashed" /\ written' = written
                   ELSE /\ \E r \in round2(q) :
                              written' = <<"Risk Reward:", r>>
                        /\ pc' = "log"
       ELSE /\ pc' = "log"
            /\ UNCHANGED <<risk, reward, written>>
    /\ UNCHANGED <<entry, sl, tp>>
    /\ UNCHANGED chartVars /\ UNCHANGED logVars

\* ------------------------------------------------------------- trade log
COINS == {"Bitcoin", "Ethereum", "Solana"}

\* the values of the widgets: Coin, Typ, Menge (its minimum 0.0 or a positive
\* amount), Preis
Trade == [coin : COINS, type : {"BUY", "SELL"},
          amount : {0, MaxAmount}, price : 1..MaxTradePrice]

\* json text as a sequence of tokens; a float is written with its fraction
NumTok(v) == ToString(v) \o ".0"

ParseNum(tok) ==
    LET c == {v \in 0..(MaxAmount + MaxTradePrice) : NumTok(v) = tok}
    IN  IF c = {} THEN -1 ELSE CHOOSE v \in c : TRUE

dump_trade(t) ==
    <<"{", "coin", t.coin, "type", t.type, "amount", NumTok(t.amount),
      "price", NumTok(t.price), "}">>

RECURSIVE dump_items(_)
dump_items(ts) ==
    IF ts = <<>> THEN <<>>
    ELSE IF Len(ts) = 1 THEN dump_trade(ts[1])
    ELSE dump_trade(ts[1]) \o <<",">> \o dump_items(Tail(ts))

\* a dump that writes the newest entry only
json_dump_newest(ts) ==
    <<"[">> \o (IF ts = <<>> THEN <<>> ELSE dump_trade(ts[Len(ts)])) \o <<"]">>

json_dump(ts) == <<"[">> \o dump_items(ts) \o <<"]">>

Fail == [ok |-> FALSE, val |-> <<>>]

load_object(text) ==
    IF Len(text) = 10 /\ text[1] = "{" /\ text[2] = "coin" /\ text[4] = "type"
       /\ text[6] = "amount" /\ text[8] = "price" /\ text[10] = "}"
       /\ ParseNum(text[7]) >= 0 /\ ParseNum(text[9]) >= 0
    THEN [ok |-> TRUE,
          val |-> <<[coin |-> text[3], type |-> text[5],
                     amount |-> ParseNum(text[7]),
                     price |-> ParseNum(text[9])]>>]
    ELSE Fail

RECURSIVE load_items(_)
load_items(text) ==
    IF Len(text) < 10 THEN Fail
    ELSE LET ob == load_object(SubSeq(text, 1, 10))
         IN  IF ~ob.ok THEN Fail
             ELSE IF Len(text) = 10 THEN ob
             ELSE IF text[11] # "," THEN Fail
             ELSE LET rest == load_items(SubSeq(text, 12, Len(text)))
                  IN  IF rest.ok
                      THEN [ok |-> TRUE, val |-> ob.val \o rest.val]
                      ELSE Fail

\* json.load: the list, or a JSONDecodeError on anything else
json_load(text) ==
    IF Len(text) < 2 \/ text[1] # "[" \/ text[Len(text)] # "]" THEN Fail
    ELSE IF Len(text) = 2 THEN [ok |-> TRUE, val |-> <<>>]
    ELSE load_items(SubSeq(text, 2, Len(text) - 1))

NoFile == [exists |-> FALSE, text |-> <<>>]

load_trades(f) ==
    IF f.exists THEN json_load(f.text) ELSE [ok |-> TRUE, val |-> <<>>]

\* the widgets of the section and st.button("Trade speichern"); t_new holds
\* the widget values the handler reads, so it stays empty when the button
\* is not pressed.  The log is kept to MaxTrades entries.
trade_button ==
    /\ pc = "log"
    /\ \E pressed \in BOOLEAN :
          IF pressed
          THEN /\ Len(file0) + Len(appended) < MaxTrades
               /\ \E t \in Trade : t_new' = t
               /\ pc' = "load"
          ELSE /\ t_new' = <<>>
               /\ pc' = "reload"
    /\ UNCHANGED <<file, trades, table, appended, file0>>
    /\ UNCHANGED chartVars /\ UNCHANGED riskVars

\* trades = load_trades()  in the handler
handler_load ==
    /\ pc = "load"
    /\ LET r == load_trades(file)
       IN  IF r.ok THEN trades' = r.val /\ pc' = "append"
           ELSE trades' = trades /\ pc' = "crashed"
    /\ UNCHANGED <<file, t_new, table, appended, file0>>
    /\ UNCHANGED chartVars /\ UNCHANGED riskVars

handler_append ==
    /\ pc = "append"
    /\ trades' = Append(trades, t_new)
    /\ pc' = "save_open"
    /\ UNCHANGED <<file, t_new, table, appended, file0>>
    /\ UNCHANGED chartVars /\ UNCHANGED riskVars

\* open(DATA_FILE, "w") creates the file or truncates it
save_open ==
    /\ pc = "save_open"
    /\ file' = [exists |-> TRUE, text |-> <<>>]
    /\ pc' = "save_dump"
    /\ UNCHANGED <<trades, t_new, table, appended, file0>>
    /\ UNCHANGED chartVars /\ UNCHANGED riskVars

\* json.dump(trades, f) and the close of the with block
save_dump ==
    /\ pc = "save_dump"
    /\ file' = [exists |-> TRUE, text |-> json_dump(trades)]
    /\ appended' = Append(appended, t_new)
    /\ pc' = "reload"
    /\ UNCHANGED <<trades, t_new, table, file0>>
    /\ UNCHANGED chartVars /\ UNCHANGED riskVars

\* open() raises (disk unwritable): nothing is written
save_open_fail ==
    /\ pc = "save_open"
    /\ pc' = "crashed"
    /\ UNCHANGED logVars
    /\ UNCHANGED chartVars /\ UNCHANGED riskVars

\* a write of json.dump raises: what was written so far stays in the file
save_dump_fail ==
    /\ pc = "save_dump"
    /\ \E m \in 0..(Len(json_dump(trades)) - 1) :
          file' = [exists |-> TRUE, text |-> SubSeq(json_dump(trades), 1, m)]
    /\ pc' = "crashed"
    /\ UNCHANGED <<trades, t_new, table, appended, file0>>
    /\ UNCHANGED chartVars /\ UNCHANGED riskVars

\* trades = load_trades()  after the handler
script_load ==
    /\ pc = "reload"
    /\ LET r == load_trades(file)
       IN  IF r.ok THEN trades' = r.val /\ pc' = "show"
           ELSE trades' = trades /\ pc' = "crashed"
    /\ UNCHANGED <<file, t_new, table, appended, file0>>
    /\ UNCHANGED chartVars /\ UNCHANGED riskVars

\* if trades: st.dataframe(...)
show_trades ==
    /\ pc = "show"
    /\ table' = IF trades # <<>> THEN trades ELSE <<>>
    /\ pc' = "done"
    /\ UNCHANGED <<file, trades, t_new, appended, file0>>
    /\ UNCHANGED chartVars /\ UNCHANGED riskVars

\* the next interaction runs the script again
rerun ==
    /\ pc \in {"done", "crashed"}
    /\ pc' = "log"
    /\ trades' = <<>> /\ table' = <<>> /\ t_new' = <<>>
    /\ UNCHANGED <<file, appended, file0>>
    /\ UNCHANGED chartVars /\ UNCHANGED riskVars

LogIdle ==
    /\ file = NoFile /\ trades = <<>> /\ t_new = <<>> /\ table = <<>>
    /\ appended = <<>> /\ file0 = <<>>

\* -------------------------------------------------------- specifications
\* one run of the script from the chart to the end of the backtest
Init ==
    /\ pc = "chart"
    /\ ChartIdle /\ RiskIdle /\ LogIdle

Next ==
    \/ get_chart
    \/ add_indicators
    \/ signal_call
    \/ signal_panel
    \/ backtest_button
    \/ backtest_iter
    \/ backtest_final

Spec == Init /\ [][Next]_vars

\* ai_signal on frames whose rows are drawn directly
SignalVals == {Flt(v) : v \in 1..MaxPrice}

RSIVals == {NaN, Flt(0), Flt(30), Flt(50), Flt(70), Flt(100)}

Row ==
    {r \in [price : SignalVals, SMA20 : SignalVals \cup {NaN},
            SMA50 : SignalVals \cup {NaN}, EMA20 : SignalVals, RSI : RSIVals] :
        IsNaN(r.SMA20) => IsNaN(r.SMA50)}

\* earlier rows that would give the opposite extremes if they were read
PrefixRow ==
    {[price |-> Flt(MaxPrice), SMA20 |-> Flt(MaxPrice), SMA50 |-> Flt(1),
      EMA20 |-> Flt(1), RSI |-> Flt(0)],
     [price |-> Flt(1), SMA20 |-> Flt(1), SMA50 |-> Flt(MaxPrice),
      EMA20 |-> Flt(MaxPrice), RSI |-> Flt(100)],
     [price |-> Flt(1), SMA20 |-> NaN, SMA50 |-> NaN,
      EMA20 |-> Flt(1), RSI |-> NaN]}

Frame(rows) ==
    [price |-> [j \in 1..Len(rows) |-> rows[j].price],
     SMA20 |-> [j \in 1..Len(rows) |-> rows[j].SMA20],
     SMA50 |-> [j \in 1..Len(rows) |-> rows[j].SMA50],
     EMA20 |-> [j \in 1..Len(rows) |-> Exact(rows[j].EMA20)],
     RSI   |-> [j \in 1..Len(rows) |-> rows[j].RSI]]

InitSignal ==
    /\ pc = "signal"
    /\ \E pre \in UNION {[1..m -> PrefixRow] : m \in 0..(MaxRows - 1)} :
       \E last \in Row :
          df = Frame(pre \o <<last>>)
    /\ signal = "" /\ score = 0 /\ panel = <<>>
    /\ i = 0 /\ cash = None /\ coin_amt = None /\ final = None
    /\ info = None /\ executed = <<>>
    /\ RiskIdle /\ LogIdle

NextSignal == signal_call \/ signal_panel

SpecSignal == InitSignal /\ [][NextSignal]_vars

\* the SL/TP section
InitRisk ==
    /\ pc = "risk"
    /\ ChartIdle /\ RiskIdle /\ LogIdle

NextRisk == sltp_inputs \/ sltp_tool

SpecRisk == InitRisk /\ [][NextRisk]_vars

\* the trade log section, run after run, over a missing or existing file
InitLog ==
    /\ pc = "log"
    /\ \E old \in UNION {[1..m -> Trade] : m \in 0..(MaxTrades - 1)} :
       \E there \in BOOLEAN :
          /\ file0 = old
          /\ (~there => old = <<>>)
          /\ file = IF there THEN [exists |-> TRUE, text |-> json_dump(old)]
                    ELSE NoFile
    /\ trades = <<>> /\ t_new = <<>> /\ table = <<>> /\ appended = <<>>
    /\ ChartIdle /\ RiskIdle

NextLog ==
    \/ trade_button
    \/ handler_load
    \/ handler_append
    \/ save_open
    \/ save_dump
    \/ script_load
    \/ show_trades
    \/ rerun

SpecLog == InitLog /\ [][NextLog]_vars

\* the same with writes that can fail
NextLogFail ==
    \/ NextLog
    \/ save_open_fail
    \/ save_dump_fail

SpecLogFail == InitLog /\ [][NextLogFail]_vars


\* ------------------------------------------------------------ properties
Defined(x) == x.k = "num"

\* x > y and x = y on defined numbers, by cross-multiplication
Greater(x, y) == Defined(x) /\ Defined(y) /\ x.s * x.n * y.d > y.s * y.n * x.d

Same(x, y) == Defined(x) /\ Defined(y) /\ x.s * x.n * y.d = y.s * y.n * x.d

Last(col) == col[Len(col)]

LastDefined(d) ==
    /\ Defined(Last(d.price)) /\ Defined(Last(d.SMA20))
    /\ Defined(Last(d.SMA50)) /\ Defined(Last(d.RSI))
    /\ Defined(Last(d.EMA20).lo) /\ Last(d.EMA20).lo = Last(d.EMA20).hi

Scored == pc \in {"panel", "backtest"}

\* C1: with price, SMA20, SMA50, EMA20 and RSI of the last row defined,
\* score = [SMA20 > SMA50] + [price > EMA20] + [RSI < 30] - [RSI > 70] with
\* strict comparisons, and the signal is BUY exactly for score >= 2, SELL
\* exactly for score <= -1, HOLD otherwise; only the last row is read.
C1_ScoreAndClass ==
    (Scored /\ LastDefined(df)) =>
        /\ score = (IF Greater(Last(df.SMA20), Last(df.SMA50)) THEN 1 ELSE 0)
                 + (IF Greater(Last(df.price), Last(df.EMA20).lo) THEN 1 ELSE 0)
                 + (IF Greater(Flt(30), Last(df.RSI)) THEN 1 ELSE 0)
                 - (IF Greater(Last(df.RSI), Flt(70)) THEN 1 ELSE 0)
        /\ (signal = "BUY") = (score >= 2)
        /\ (signal = "SELL") = (score <= -1)
        /\ (signal = "HOLD") = (score \in 0..1)

\* a frame with an earlier row, equal SMAs (0), price above EMA20 (+1) and
\* RSI below 30 (+1): BUY with score 2
C1_Witness ==
    /\ Scored /\ LastDefined(df) /\ Len(df.price) >= 2
    /\ Same(Last(df.SMA20), Last(df.SMA50))
    /\ Greater(Last(df.price), Last(df.EMA20).lo)
    /\ Greater(Flt(30), Last(df.RSI))
    /\ signal = "BUY" /\ score = 2

LastUndefined(d) ==
    \/ IsNaN(Last(d.SMA20)) \/ IsNaN(Last(d.SMA50))
    \/ IsNaN(Last(d.RSI)) \/ IsNaN(Last(d.EMA20).lo)

\* C2: when SMA20, SMA50, EMA20 or RSI of the last row is undefined (every
\* series shorter than 50 points), the signal engine refuses to classify
\* or marks the score unreliable; it returns no ordinary (signal, score).
C2_RefusesUndefined ==
    (Scored /\ LastUndefined(df)) => signal \notin {"BUY", "SELL", "HOLD"}

Finished == pc = "risk" /\ final # None

Above(d, ix) == Greater(iloc(d.SMA20, ix), iloc(d.SMA50, ix))

Below(d, ix) == Greater(iloc(d.SMA50, ix), iloc(d.SMA20, ix))

NeverAbove(d) == \A ix \in 50..(Len(d.price) - 1) : ~Above(d, ix)

\* C3: a series with no index i, 50 <= i < N, where SMA20[i] > SMA50[i]
\* (every series shorter than 50 points included) executes no trade and
\* the final result is exactly the starting cash 1000.
C3_NoSignalNoTrade ==
    (pc \in {"bt_loop", "risk"} /\ cash # None /\ NeverAbove(df)) =>
        /\ executed = <<>>
        /\ Finished => final = Flt(1000)

\* a finished backtest over more than 50 points, SMA20 below SMA50 at some
\* replayed index, never above
C3_Witness ==
    /\ Finished /\ NeverAbove(df) /\ Len(df.price) > 50
    /\ \E ix \in 50..(Len(df.price) - 1) : Below(df, ix)
    /\ final = Flt(1000)

\* C4: with strictly positive prices the final result is cash when the
\* portfolio is flat and holdings * last price when units are held, and
\* the test cash > 0 selects the branch that holdings == 0 would select.
C4_FinalValue ==
    Finished =>
        /\ Greater(cash, Flt(0)) = Same(coin_amt, Flt(0))
        /\ Same(coin_amt, Flt(0)) => final = cash
        /\ Greater(coin_amt, Flt(0)) =>
              /\ Defined(final)
              /\ final.s = 1
              /\ final.n * coin_amt.d * Last(df.price).d
                    = coin_amt.n * Last(df.price).n * final.d

\* a backtest that ends holding units worth less than the starting cash
C4_Witness ==
    /\ Finished /\ Greater(coin_amt, Flt(0)) /\ Same(cash, Flt(0))
    /\ executed # <<>> /\ Greater(Flt(1000), final)

\* C5: across any number of Trade-speichern appends over a missing or an
\* existing file, load_trades() returns the persisted trades in their
\* order, unchanged, followed by the appended ones, the newest last; every
\* append adds exactly one entry.
C5_AppendRoundTrip ==
    pc \in {"show", "done"} =>
        /\ trades = file0 \o appended
        /\ load_trades(file) = [ok |-> TRUE, val |-> file0 \o appended]

\* an existing log of one trade with a different trade appended and shown
C5_Witness ==
    /\ pc = "show" /\ Len(file0) >= 1 /\ Len(appended) >= 1
    /\ appended[Len(appended)] = t_new /\ t_new # file0[1]
    /\ trades = file0 \o <<t_new>>

\* C6: when a save fails between opening the file and completing the dump,
\* the file on disk is the complete old log or the complete new log and
\* loads; it is never empty or partial.
C6_AtomicSave ==
    pc = "crashed" =>
        \/ load_trades(file) = [ok |-> TRUE, val |-> file0 \o appended]
        \/ load_trades(file) = [ok |-> TRUE, val |-> file0 \o appended \o <<t_new>>]

\* C7: entry, stop-loss and take-profit > 0 with entry == stop-loss: the
\* tool reports an undefined ratio, raises nothing and writes no infinite
\* ratio, and the script goes on to the trade log section.
C7_UndefinedRatio ==
    (pc \in {"log", "crashed"} /\ Greater(entry, Flt(0)) /\ Greater(tp, Flt(0))
        /\ Same(entry, sl)) =>
        /\ pc = "log"
        /\ written # <<>>
        /\ written[2].k \notin {"num", "inf"}

Computed == pc \notin {"chart", "indicators"}

NoLossWindow(d, ix) ==
    \A m \in (ix - 13)..ix : ~Greater(iloc(d.price, m - 1), iloc(d.price, m))

\* C8: for every index i >= 14, RSI[i] is a defined number in [0, 100],
\* and it is exactly 100 when the average loss over the 14 deltas ending
\* at i is 0, equal prices included.
C8_RSIRange ==
    Computed =>
        \A ix \in 14..(Len(df.price) - 1) :
            /\ Defined(iloc(df.RSI, ix))
            /\ ~Greater(Flt(0), iloc(df.RSI, ix))
            /\ ~Greater(iloc(df.RSI, ix), Flt(100))
            /\ NoLossWindow(df, ix) => Same(iloc(df.RSI, ix), Flt(100))

\* the edge-triggered rule: buy at the first index from `from` on where
\* SMA20 > SMA50 holds and did not hold at the index before, sell at the
\* first index after it where SMA20 < SMA50, and so on
RECURSIVE EdgeTrades(_, _, _)
EdgeTrades(d, from, holding) ==
    LET at == IF holding
              THEN {ix \in from..(Len(d.price) - 1) : Below(d, ix)}
              ELSE {ix \in from..(Len(d.price) - 1) :
                        Above(d, ix) /\ ~Above(d, ix - 1)}
    IN  IF at = {} THEN <<>>
        ELSE LET ix == CHOOSE x \in at : \A y \in at : x <= y
             IN  <<(<<IF holding THEN "SELL" ELSE "BUY", ix>>)>>
                 \o EdgeTrades(d, ix + 1, ~holding)

\* the portfolio value after a list of trades, marked to the last price
RECURSIVE PortfolioAfter(_, _, _, _)
PortfolioAfter(d, ts, c, a) ==
    IF ts = <<>>
    THEN (IF Greater(a, Flt(0)) THEN FMul(a, Last(d.price)) ELSE c)
    ELSE IF ts[1][1] = "BUY"
         THEN PortfolioAfter(d, Tail(ts), Flt(0), FDiv(c, iloc(d.price, ts[1][2])))
         ELSE PortfolioAfter(d, Tail(ts), FMul(a, iloc(d.price, ts[1][2])), Flt(0))

EdgeAgrees ==
    /\ executed = EdgeTrades(df, 50, FALSE)
    /\ final = PortfolioAfter(df, EdgeTrades(df, 50, FALSE), Flt(1000), Flt(0))

HeldBefore(d) == Len(d.price) > 50 /\ Above(d, 49) /\ Above(d, 50)

\* C9 as stated: for every series the state-based rule and the
\* edge-triggered rule execute the same buys and sells at the same indices
\* and give the same final value, also when SMA20 > SMA50 holds at index 49
\* and 50.
C9_EdgeEquivalent == Finished => EdgeAgrees

\* C9 amended: the two rules agree on every series in which SMA20 > SMA50
\* does not hold at both index 49 and index 50; where it holds at both, the
\* state-based rule buys at index 50 and the edge-triggered rule does not.
C9_EdgeEquivalentUnlessHeld ==
    Finished =>
        IF HeldBefore(df)
        THEN /\ executed # <<>> /\ executed[1] = <<"BUY", 50>>
             /\ \A j \in 1..Len(EdgeTrades(df, 50, FALSE)) :
                    EdgeTrades(df, 50, FALSE)[j] # <<"BUY", 50>>
        ELSE EdgeAgrees

\* a series outside the exception that buys on a crossing after index 50
\* and sells again
C9_Witness ==
    /\ Finished /\ ~HeldBefore(df) /\ Len(executed) >= 2 /\ EdgeAgrees
    /\ executed[1][2] > 50

OneSided(c, a) ==
    \/ Greater(c, Flt(0)) /\ Same(a, Flt(0))
    \/ Same(c, Flt(0)) /\ Greater(a, Flt(0))

Alternating(ts) ==
    \A j \in 1..Len(ts) :
        ts[j][1] = (IF j % 2 = 1 THEN "BUY" ELSE "SELL")

\* C10: after every iteration of the backtest loop exactly one of cash and
\* holdings is positive and the other is 0 (initially cash = 1000,
\* holdings = 0); the executed buys and sells alternate, starting with a
\* buy.
C10_OneSidedAlternating ==
    (pc = "bt_loop" \/ Finished) =>
        /\ OneSided(cash, coin_amt)
        /\ Alternating(executed)
        /\ (Len(executed) % 2 = 1) = Greater(coin_amt, Flt(0))

\* inside the loop after a buy and a sell at another price
C10_Witness ==
    /\ pc = "bt_loop" /\ i < Len(df.price) /\ Len(executed) >= 2
    /\ Same(coin_amt, Flt(0)) /\ Greater(cash, Flt(0)) /\ cash # Flt(1000)

====
